---- MODULE Spec2Model ----
(***************************************************************************)
(* Model of the two event-extraction pipelines                             *)
(*   src/Database/user_post_img.py  (flyer image -> LLM -> JSON file)      *)
(*   src/Database/user_post_url.py  (web page    -> LLM -> JSON file)      *)
(*                                                                         *)
(* Text is a sequence of one-character strings.  The LLM, the HTTP fetch,  *)
(* the image decoder, the console and the file system are the environment: *)
(* their outcomes are chosen nondeterministically.                         *)
(***************************************************************************)
EXTENDS Integers, Sequences, FiniteSets, TLC

\* ------------------------------------------------------------------ bounds
\* number of segments an LLM response of the pipeline is built from
MaxResp == 4
\* number of segments a response handed to the unwrapping routine is built from
MaxSegs == 6
\* number of text nodes of a parsed HTML document
MaxNodes == 2
\* number of characters of all text nodes of an HTML document together
MaxChars == 3

\* ------------------------------------------------------------ text helpers
\* the backquote character (written as a quote: the string syntax has no backquote)
BT == "'"
\* the markers of a markdown code fence: three backquotes, and three backquotes + json
Fence == <<BT, BT, BT>>
FenceJson == <<BT, BT, BT, "j", "s", "o", "n">>
Whitespace == {" ", "\n"}

RECURSIVE Concat(_)
Concat(ss) == IF ss = <<>> THEN <<>> ELSE Head(ss) \o Concat(Tail(ss))

RECURSIVE SeqsUpTo(_, _)
SeqsUpTo(S, n) ==
    IF n = 0 THEN {<<>>}
    ELSE LET R == SeqsUpTo(S, n - 1)
         IN  R \cup {Append(r, x) : r \in {q \in R : Len(q) = n - 1}, x \in S}

\* sep occurs in s at position i
OccursAt(s, sep, i) ==
    /\ i >= 1
    /\ i + Len(sep) - 1 <= Len(s)
    /\ SubSeq(s, i, i + Len(sep) - 1) = sep

\* str.find: position of the first occurrence of sep in s at or after i, 0 if none
RECURSIVE Find(_, _, _)
Find(s, sep, i) ==
    IF i + Len(sep) - 1 > Len(s) THEN 0
    ELSE IF OccursAt(s, sep, i) THEN i
    ELSE Find(s, sep, i + 1)

\* Python's (sep in s)
Contains(s, sep) == Find(s, sep, 1) # 0

\* Python's s.split(sep): cut at the non-overlapping occurrences, left to right
RECURSIVE Split(_, _)
Split(s, sep) ==
    LET k == Find(s, sep, 1)
    IN  IF k = 0 THEN <<s>>
        ELSE <<SubSeq(s, 1, k - 1)>> \o Split(SubSeq(s, k + Len(sep), Len(s)), sep)

RECURSIVE LStrip(_)
LStrip(s) == IF s # <<>> /\ Head(s) \in Whitespace THEN LStrip(Tail(s)) ELSE s

RECURSIVE RStrip(_)
RStrip(s) ==
    IF s # <<>> /\ s[Len(s)] \in Whitespace THEN RStrip(SubSeq(s, 1, Len(s) - 1)) ELSE s

\* Python's s.strip()
Strip(s) == RStrip(LStrip(s))

\* ---------------------------------------------------------- fence stripping
\* variant: an unterminated fence yields no text at all
FenceStripClosedOnly(json_str) ==
    IF Contains(json_str, FenceJson)
    THEN LET rest == Split(Split(json_str, FenceJson)[2], Fence)
         IN  IF Len(rest) < 2 THEN <<>> ELSE Strip(rest[1])
    ELSE IF Contains(json_str, Fence)
    THEN LET rest == Split(json_str, Fence)
         IN  IF Len(rest) < 3 THEN <<>> ELSE Strip(rest[2])
    ELSE json_str

\* variant: the fenced text is not trimmed
FenceStripNoTrim(json_str) ==
    IF Contains(json_str, FenceJson)
    THEN Split(Split(json_str, FenceJson)[2], Fence)[1]
    ELSE IF Contains(json_str, Fence)
    THEN Split(Split(json_str, Fence)[2], Fence)[1]
    ELSE json_str

\* variant: only the plain marker is looked for
FenceStripPlainOnly(json_str) ==
    IF Contains(json_str, Fence)
    THEN Strip(Split(Split(json_str, Fence)[2], Fence)[1])
    ELSE json_str

\* json_str after the if/elif of the extraction functions
FenceStrip(json_str) ==
    IF Contains(json_str, FenceJson)
    THEN Strip(Split(Split(json_str, FenceJson)[2], Fence)[1])
    ELSE IF Contains(json_str, Fence)
    THEN Strip(Split(Split(json_str, Fence)[2], Fence)[1])
    ELSE json_str

\* ------------------------------------------------------------- JSON values
NULL == [t |-> "null"]
Str(s) == [t |-> "str", v |-> s]
List(xs) == [t |-> "list", v |-> xs]
Dict(f) == [t |-> "dict", v |-> f]
EmptyDict == Dict([k \in {} |-> NULL])

\* d[k] = v on a Python dict
DictSet(d, k, val) ==
    Dict([x \in (DOMAIN d.v) \cup {k} |-> IF x = k THEN val ELSE d.v[x]])

\* The JSON documents an LLM answer of the model can hold.  "T" and "U" each
\* abbreviate the members of an object:
\*   {T}  {"source_type": "pdf", "source_data": "elsewhere"}
\*   {U}  {"event_name": "\ud83d"}   (a lone surrogate: valid JSON, a str that
\*                                    UTF-8 cannot encode)
DocEmptyObject == <<"{", "}">>
DocArray == <<"[", "]">>
DocOtherSource == <<"{", "T", "}">>
DocSurrogate == <<"{", "U", "}">>
Surrogate == "\\ud83d"

JsonDocs == {DocEmptyObject, DocArray, DocOtherSource, DocSurrogate}

JsonValue(doc) ==
    IF doc = DocEmptyObject THEN EmptyDict
    ELSE IF doc = DocArray THEN List(<<>>)
    ELSE IF doc = DocOtherSource
    THEN Dict([k \in {"source_type", "source_data"} |->
                 IF k = "source_type" THEN Str("pdf") ELSE Str("elsewhere")])
    ELSE Dict([k \in {"event_name"} |-> Str(Surrogate)])

\* json.loads: surrounding whitespace is skipped, anything that is not one
\* complete document raises JSONDecodeError
JsonLoads(s) ==
    IF Strip(s) \in JsonDocs
    THEN [ok |-> TRUE, value |-> JsonValue(Strip(s))]
    ELSE [ok |-> FALSE, error |-> "JSONDecodeError"]

\* a str value holding a lone surrogate cannot be encoded as UTF-8
Encodable(val) ==
    IF val.t = "dict" THEN \A k \in DOMAIN val.v : val.v[k] # Str(Surrogate)
    ELSE TRUE


\* ------------------------------------------------------------ the records
ContentFields ==
    {"event_name", "event_date_start", "event_date_end", "location",
     "organizer", "target_audience", "summary"}

\* the record the image extraction returns from its except branch
DegradedImage(error, image_path) ==
    Dict([k \in ContentFields \cup {"source_type", "source_data", "tags", "error"} |->
            IF k = "source_type" THEN Str("image")
            ELSE IF k = "source_data" THEN Str(image_path)
            ELSE IF k = "tags" THEN List(<<>>)
            ELSE IF k = "error" THEN Str(error)
            ELSE NULL])

\* the record the URL extraction returns from its except branch
DegradedUrl(error, source_url) ==
    Dict([k \in {"error", "source_type", "source_data"} |->
            IF k = "error" THEN Str(error)
            ELSE IF k = "source_type" THEN Str("url")
            ELSE Str(source_url)])

\* ------------------------------------------------------------- environment
image_path == "event_flyer.jpg"
url == "https://www.uec.ac.jp/news/event/2025/20250613_7027.html"

Json == <<"j", "s", "o", "n">>
Newline == <<"\n">>
Garbage == <<"x">>

RespSegments ==
    {Fence, Json, Newline, DocEmptyObject, DocArray, DocOtherSource, DocSurrogate}
Responses == {Concat(ss) : ss \in SeqsUpTo(RespSegments, MaxResp)}

Raised(e) == [st |-> "raised", text |-> <<>>, error |-> e]
Returned(r) == [st |-> "ok", text |-> r, error |-> ""]
NoResponse == [st |-> "none", text |-> <<>>, error |-> ""]

\* generate_content raises, reading response.text raises, or a text comes back
LlmOutcomes ==
    {Raised("GoogleAPIError"), Raised("ValueError")} \cup {Returned(r) : r \in Responses}

NoText == [set |-> FALSE, text |-> <<>>]
TextOf(s) == [set |-> TRUE, text |-> s]
NoData == [t |-> "none"]

NoFile == [st |-> "absent", data |-> NoData]
OldFile == [st |-> "old", data |-> NoData]

\* -------------------------------------------------------- extraction (pure)
\* variant: the parsed record is returned without the two assignments
extract_event_info_from_image_as_parsed(llm, path) ==
    IF llm.st = "raised"
    THEN [raised |-> FALSE, json_str |-> NoText, event_data |-> DegradedImage(llm.error, path)]
    ELSE LET js == FenceStrip(llm.text)
             parsed == JsonLoads(js)
         IN  IF ~parsed.ok
             THEN [raised |-> FALSE, json_str |-> TextOf(js),
                   event_data |-> DegradedImage(parsed.error, path)]
             ELSE [raised |-> FALSE, json_str |-> TextOf(js), event_data |-> parsed.value]

\* variant: the two assignments sit after the try block, so the TypeError of a
\* non-mapping value leaves the function
extract_event_info_from_image_unguarded(llm, path) ==
    IF llm.st = "raised"
    THEN [raised |-> FALSE, json_str |-> NoText, event_data |-> DegradedImage(llm.error, path)]
    ELSE LET js == FenceStrip(llm.text)
             parsed == JsonLoads(js)
         IN  IF ~parsed.ok
             THEN [raised |-> FALSE, json_str |-> TextOf(js),
                   event_data |-> DegradedImage(parsed.error, path)]
             ELSE IF parsed.value.t # "dict"
             THEN [raised |-> TRUE, json_str |-> TextOf(js), event_data |-> NoData]
             ELSE [raised |-> FALSE, json_str |-> TextOf(js),
                   event_data |->
                       DictSet(DictSet(parsed.value, "source_type", Str("image")),
                               "source_data", Str(path))]

\* the body of extract_event_info_from_image for one LLM outcome: the text
\* handed to json.loads (if that point is reached), the record returned, and
\* whether an exception leaves the function (the except clause catches every
\* Exception, so none does)
extract_event_info_from_image(llm, path) ==
    IF llm.st = "raised"
    THEN [raised |-> FALSE, json_str |-> NoText, event_data |-> DegradedImage(llm.error, path)]
    ELSE LET js == FenceStrip(llm.text)
             parsed == JsonLoads(js)
         IN  IF ~parsed.ok
             THEN [raised |-> FALSE, json_str |-> TextOf(js),
                   event_data |-> DegradedImage(parsed.error, path)]
             ELSE IF parsed.value.t # "dict"
             THEN \* item assignment on a list raises TypeError, inside the try
                  [raised |-> FALSE, json_str |-> TextOf(js),
                   event_data |-> DegradedImage("TypeError", path)]
             ELSE [raised |-> FALSE, json_str |-> TextOf(js),
                   event_data |->
                       DictSet(DictSet(parsed.value, "source_type", Str("image")),
                               "source_data", Str(path))]

\* variant: the except clause catches json.JSONDecodeError only
extract_event_info_with_llm_narrow_except(llm, source_url) ==
    IF llm.st = "raised"
    THEN [raised |-> TRUE, json_str |-> NoText, event_data |-> NoData]
    ELSE LET js == FenceStrip(llm.text)
             parsed == JsonLoads(js)
         IN  IF ~parsed.ok
             THEN [raised |-> FALSE, json_str |-> TextOf(js),
                   event_data |-> DegradedUrl(parsed.error, source_url)]
             ELSE [raised |-> FALSE, json_str |-> TextOf(js), event_data |-> parsed.value]

\* the body of extract_event_info_with_llm for one LLM outcome
extract_event_info_with_llm(llm, source_url) ==
    IF llm.st = "raised"
    THEN [raised |-> FALSE, json_str |-> NoText, event_data |-> DegradedUrl(llm.error, source_url)]
    ELSE LET js == FenceStrip(llm.text)
             parsed == JsonLoads(js)
         IN  IF ~parsed.ok
             THEN [raised |-> FALSE, json_str |-> TextOf(js),
                   event_data |-> DegradedUrl(parsed.error, source_url)]
             ELSE [raised |-> FALSE, json_str |-> TextOf(js), event_data |-> parsed.value]

\* ------------------------------------------------------------------- state
VARIABLES
    mode,         \* "image" | "url": which program runs
    pc,           \* stage of the run
    api_key,      \* GEMINI_API_KEY is set
    exit_status,  \* -1 while running or after main returned, else the exit() code
    content,      \* what the Content Loader returned
    llm_calls,    \* number of generate_content calls
    response,     \* outcome of the LLM call
    json_str,     \* text handed to json.loads
    event_data,   \* value returned by the extraction function
    echoed,       \* the record has been printed
    file,         \* the output file
    file_opens,   \* number of successful open(filename, "w")
    html,         \* the document tree html.parser builds from the fetched page
    soup,         \* the tree after the non-content elements are decomposed
    text,         \* soup.get_text(separator="\n")
    out           \* text returned by extract_text_from_html

vars ==
    <<mode, pc, api_key, exit_status, content, llm_calls, response, json_str,
      event_data, echoed, file, file_opens, html, soup, text, out>>

NoContent == [kind |-> "none", mode |-> ""]

Init ==
    /\ mode \in {"image", "url"}
    /\ pc = "Idle"
    /\ api_key \in BOOLEAN
    /\ exit_status = -1
    /\ content = NoContent
    /\ llm_calls = 0
    /\ response = NoResponse
    /\ json_str = NoText
    /\ event_data = NoData
    /\ echoed = FALSE
    /\ file \in {NoFile, OldFile}
    /\ file_opens = 0
    /\ html = <<>>
    /\ soup = <<>>
    /\ text = <<>>
    /\ out = <<>>

\* module level: the key check, then main() is entered
Startup ==
    /\ pc = "Idle"
    /\ IF api_key
       THEN pc' = "Loading" /\ exit_status' = exit_status
       ELSE pc' = "Exited" /\ exit_status' = 1
    /\ UNCHANGED <<mode, api_key, content, llm_calls, response, json_str,
                   event_data, echoed, file, file_opens, html, soup, text, out>>

\* main -> load_image: a failure is re-raised and reported by main's except
LoadImage ==
    /\ pc = "Loading"
    /\ mode = "image"
    /\ \E outcome \in {"RGB", "L", "RGBA", "FileNotFoundError", "UnidentifiedImageError"} :
         IF outcome \in {"RGB", "L", "RGBA"}
         THEN /\ content' = [kind |-> "image", mode |-> "RGB"]
              /\ pc' = "Extracting"
         ELSE /\ content' = content
              /\ pc' = "Failed"
    /\ UNCHANGED <<mode, api_key, exit_status, llm_calls, response, json_str,
                   event_data, echoed, file, file_opens, html, soup, text, out>>

\* variant: fetch_html_content reports the failure and returns instead of re-raising
LoadUrlSwallowed ==
    /\ pc = "Loading"
    /\ mode = "url"
    /\ \E outcome \in {"ok", "HTTPError", "ConnectionError"} :
         IF outcome = "ok"
         THEN /\ content' = [kind |-> "text", mode |-> ""]
              /\ pc' = "Extracting"
         ELSE /\ content' = content
              /\ pc' = "Extracting"
    /\ UNCHANGED <<mode, api_key, exit_status, llm_calls, response, json_str,
                   event_data, echoed, file, file_opens, html, soup, text, out>>

\* main -> fetch_html_content, extract_text_from_html
LoadUrl ==
    /\ pc = "Loading"
    /\ mode = "url"
    /\ \E outcome \in {"ok", "HTTPError", "ConnectionError"} :
         IF outcome = "ok"
         THEN /\ content' = [kind |-> "text", mode |-> ""]
              /\ pc' = "Extracting"
         ELSE /\ content' = content
              /\ pc' = "Failed"
    /\ UNCHANGED <<mode, api_key, exit_status, llm_calls, response, json_str,
                   event_data, echoed, file, file_opens, html, soup, text, out>>

\* main -> extract_event_info_from_image
ExtractImage ==
    /\ pc = "Extracting"
    /\ mode = "image"
    /\ \E llm \in LlmOutcomes :
         LET r == extract_event_info_from_image(llm, image_path)
         IN  /\ response' = llm
             /\ json_str' = r.json_str
             /\ event_data' = IF r.raised THEN event_data ELSE r.event_data
             /\ pc' = IF r.raised THEN "Failed" ELSE "Writing"
    /\ llm_calls' = llm_calls + 1
    /\ UNCHANGED <<mode, api_key, exit_status, content, echoed, file, file_opens,
                   html, soup, text, out>>

\* main -> extract_event_info_with_llm
ExtractUrl ==
    /\ pc = "Extracting"
    /\ mode = "url"
    /\ \E llm \in LlmOutcomes :
         LET r == extract_event_info_with_llm(llm, url)
         IN  /\ response' = llm
             /\ json_str' = r.json_str
             /\ event_data' = IF r.raised THEN event_data ELSE r.event_data
             /\ pc' = IF r.raised THEN "Failed" ELSE "Writing"
    /\ llm_calls' = llm_calls + 1
    /\ UNCHANGED <<mode, api_key, exit_status, content, echoed, file, file_opens,
                   html, soup, text, out>>

\* main: print(json.dumps(event_data, ensure_ascii=False, indent=2)).  A str
\* that cannot be encoded raises UnicodeEncodeError unless the console's error
\* handler is lenient; the exception is reported by main's except.
EchoRecord ==
    /\ pc = "Writing"
    /\ ~echoed
    /\ \E lenient \in BOOLEAN :
         IF Encodable(event_data) \/ lenient
         THEN echoed' = TRUE /\ pc' = pc
         ELSE echoed' = echoed /\ pc' = "Failed"
    /\ UNCHANGED <<mode, api_key, exit_status, content, llm_calls, response,
                   json_str, event_data, file, file_opens, html, soup, text, out>>

\* main -> save_to_json: open(filename, "w") may raise OSError; once open, the
\* file is truncated and json.dump writes the record, raising half way on a str
\* UTF-8 cannot encode.  Either exception is reported by main's except.
SaveToJson ==
    /\ pc = "Writing"
    /\ echoed
    /\ \E opened \in BOOLEAN :
         IF ~opened
         THEN /\ file' = file
              /\ file_opens' = file_opens
              /\ pc' = "Failed"
         ELSE /\ file_opens' = file_opens + 1
              /\ IF Encodable(event_data)
                 THEN file' = [st |-> "written", data |-> event_data] /\ pc' = "Done"
                 ELSE file' = [st |-> "truncated", data |-> NoData] /\ pc' = "Failed"
    /\ UNCHANGED <<mode, api_key, exit_status, content, llm_calls, response,
                   json_str, event_data, echoed, html, soup, text, out>>

Next ==
    \/ Startup
    \/ LoadImage
    \/ LoadUrl
    \/ ExtractImage
    \/ ExtractUrl
    \/ EchoRecord
    \/ SaveToJson

Spec == Init /\ [][Next]_vars


\* ===================================================== claims: the pipeline
\* the LLM call raised, or the unwrapped answer is not valid JSON, or (image
\* mode) it is valid JSON that is not a mapping
ExtractionFailed ==
    \/ response.st = "raised"
    \/ /\ response.st = "ok"
       /\ LET parsed == JsonLoads(FenceStrip(response.text))
          IN  \/ ~parsed.ok
              \/ mode = "image" /\ parsed.value.t # "dict"

LoadSucceeded == content.kind # "none"

\* C1: once the load has succeeded, a failure inside the extraction step never
\* aborts the run: the extraction function returns a record (carrying error),
\* the run reaches save_to_json with it, and the file that save_to_json opens
\* ends up holding exactly that record.
C1_ExtractionFailureNeverAborts ==
    ExtractionFailed =>
        /\ LoadSucceeded
        /\ event_data.t = "dict"
        /\ "error" \in DOMAIN event_data.v
        /\ pc \in {"Writing", "Done", "Failed"}
        /\ pc = "Failed" => (echoed /\ file_opens = 0)
        /\ file_opens > 0 => (pc = "Done" /\ file = [st |-> "written", data |-> event_data])

C1_Witness ==
    /\ pc = "Done"
    /\ response.st = "ok"
    /\ ~JsonLoads(FenceStrip(response.text)).ok
    /\ file.st = "written"
    /\ file.data = event_data
    /\ "error" \in DOMAIN event_data.v

HasNull(rec, k) == k \in DOMAIN rec.v /\ rec.v[k] = NULL

\* C2: in both entry points the record produced when extraction fails holds
\* every content field with null (description or summary for the last one),
\* tags as an empty sequence, error as the description of the failure, and
\* source_type / source_data of the entry point.
C2_DegradedRecordIsComplete ==
    (ExtractionFailed /\ event_data # NoData) =>
        /\ event_data.t = "dict"
        /\ \A k \in ContentFields \ {"summary"} : HasNull(event_data, k)
        /\ HasNull(event_data, "summary") \/ HasNull(event_data, "description")
        /\ "tags" \in DOMAIN event_data.v /\ event_data.v["tags"] = List(<<>>)
        /\ "error" \in DOMAIN event_data.v
        /\ event_data.v["error"].t = "str"
        /\ event_data.v["source_type"] = Str(mode)
        /\ event_data.v["source_data"] = Str(IF mode = "image" THEN image_path ELSE url)

\* C3: a fatal failure (load failed, or the API key is missing) ends the run
\* with the LLM never called and the output file never opened nor changed; a
\* missing key exits with a non-zero status before any load.
C3_FatalFailureWritesNothing ==
    /\ (pc = "Failed" /\ ~LoadSucceeded) =>
          /\ llm_calls = 0
          /\ response = NoResponse
          /\ file_opens = 0
          /\ file \in {NoFile, OldFile}
          /\ ~ENABLED Next
    /\ ~api_key =>
          /\ pc \in {"Idle", "Exited"}
          /\ ~LoadSucceeded
          /\ llm_calls = 0
          /\ file_opens = 0
          /\ file \in {NoFile, OldFile}
    /\ pc = "Exited" => (exit_status # 0 /\ exit_status # -1 /\ ~ENABLED Next)

C3_Witness ==
    /\ pc = "Failed"
    /\ ~LoadSucceeded
    /\ file = OldFile
    /\ llm_calls = 0

OriginalEdges ==
    {<<"Idle", "Loading">>, <<"Idle", "Exited">>, <<"Loading", "Extracting">>,
     <<"Loading", "Failed">>, <<"Extracting", "Writing">>, <<"Writing", "Done">>}

\* C4 as stated: the run moves Idle -> Loading -> Extracting -> Writing -> Done
\* and Failed is entered from Loading only.
C4_FailedOnlyFromLoading ==
    [][pc' # pc => <<pc, pc'>> \in OriginalEdges]_vars

\* C4 amended: the run moves Idle -> Loading -> Extracting -> Writing -> Done;
\* Failed is entered from Loading or from Writing (printing or saving the
\* record raised), never from Extracting.
C4_FailedFromLoadingOrWriting ==
    [][pc' # pc => <<pc, pc'>> \in OriginalEdges \cup {<<"Writing", "Failed">>}]_vars

C4_Witness ==
    /\ pc = "Failed"
    /\ LoadSucceeded
    /\ event_data # NoData

\* C6: in image mode every record the extraction step returns has source_type
\* "image" and source_data equal to the input path, whatever the LLM answered.
C6_ImageSourceFields ==
    (mode = "image" /\ event_data # NoData) =>
        /\ event_data.t = "dict"
        /\ "source_type" \in DOMAIN event_data.v
        /\ "source_data" \in DOMAIN event_data.v
        /\ event_data.v["source_type"] = Str("image")
        /\ event_data.v["source_data"] = Str(image_path)

C6_Witness ==
    /\ mode = "image"
    /\ response.st = "ok"
    /\ Strip(FenceStrip(response.text)) = DocOtherSource
    /\ event_data.v["source_type"] = Str("image")
    /\ "error" \notin DOMAIN event_data.v

\* C7: in URL mode every record written to the output file holds source_type
\* "url" and source_data equal to the source URL, for every LLM response.
C7_UrlSourceFields ==
    (mode = "url" /\ file.st = "written") =>
        /\ file.data.t = "dict"
        /\ "source_type" \in DOMAIN file.data.v
        /\ "source_data" \in DOMAIN file.data.v
        /\ file.data.v["source_type"] = Str("url")
        /\ file.data.v["source_data"] = Str(url)

\* the response holds exactly one fence marker
OneFence(r) == Len(Split(r, Fence)) = 2

\* the text after the opening marker (three backquotes, with json when it follows)
AfterOpening(r) ==
    LET k == Find(r, Fence, 1)
        n == IF OccursAt(r, FenceJson, k) THEN Len(FenceJson) ELSE Len(Fence)
    IN  SubSeq(r, k + n, Len(r))

\* C10: an opening fence with no closing fence after it does not raise and is
\* no soft error by itself: the text after the opening marker, trimmed, goes to
\* the JSON parser, and a complete JSON object after an unterminated json fence
\* yields a normal record without an error field.
C10_UnterminatedFence ==
    (response.st = "ok" /\ OneFence(response.text)) =>
        /\ json_str = TextOf(Strip(AfterOpening(response.text)))
        /\ (/\ Contains(response.text, FenceJson)
            /\ Strip(AfterOpening(response.text)) \in JsonDocs \ {DocArray}) =>
               /\ event_data.t = "dict"
               /\ "error" \notin DOMAIN event_data.v
               /\ DOMAIN JsonValue(Strip(AfterOpening(response.text))).v
                      \subseteq DOMAIN event_data.v

C10_Witness ==
    /\ response.st = "ok"
    /\ response.text = FenceJson \o Newline \o DocEmptyObject
    /\ json_str = TextOf(DocEmptyObject)
    /\ event_data.t = "dict"
    /\ "error" \notin DOMAIN event_data.v
    /\ pc = "Done"


\* ============================================ the unwrapping routine alone
\* Responses handed to the fence stripping and the parser, one per behaviour.
UnwrapSegments == {Fence, Json, Newline, DocEmptyObject, Garbage}
UnwrapInputs == {Concat(ss) : ss \in SeqsUpTo(UnwrapSegments, MaxSegs)}

InitUnwrap ==
    /\ mode \in {"image", "url"}
    /\ pc = "Unwrap"
    /\ api_key = TRUE
    /\ exit_status = -1
    /\ content = NoContent
    /\ llm_calls = 1
    /\ response \in {Returned(r) : r \in UnwrapInputs}
    /\ json_str = NoText
    /\ event_data = NoData
    /\ echoed = FALSE
    /\ file = NoFile
    /\ file_opens = 0
    /\ html = <<>>
    /\ soup = <<>>
    /\ text = <<>>
    /\ out = <<>>

\* json_str = response.text and the if/elif that strips the fence
UnwrapResponse ==
    /\ pc = "Unwrap"
    /\ json_str' = TextOf(FenceStrip(response.text))
    /\ pc' = "Parse"
    /\ UNCHANGED <<mode, api_key, exit_status, content, llm_calls, response,
                   event_data, echoed, file, file_opens, html, soup, text, out>>

\* the rest of the extraction function on the same response
ParseUnwrapped ==
    /\ pc = "Parse"
    /\ event_data' =
          IF mode = "image"
          THEN extract_event_info_from_image(response, image_path).event_data
          ELSE extract_event_info_with_llm(response, url).event_data
    /\ pc' = "Parsed"
    /\ UNCHANGED <<mode, api_key, exit_status, content, llm_calls, response,
                   json_str, echoed, file, file_opens, html, soup, text, out>>

NextUnwrap ==
    \/ UnwrapResponse
    \/ ParseUnwrapped

SpecUnwrap == InitUnwrap /\ [][NextUnwrap]_vars

\* the response is exactly: json fence, newline, body, newline, closing fence,
\* with no fence marker inside the body
IsJsonBlock(r) ==
    /\ Len(r) >= Len(FenceJson) + 2 + Len(Fence)
    /\ SubSeq(r, 1, Len(FenceJson) + 1) = FenceJson \o Newline
    /\ SubSeq(r, Len(r) - Len(Fence), Len(r)) = Newline \o Fence
    /\ Len(Split(r, Fence)) = 3

BlockBody(r) == SubSeq(r, Len(FenceJson) + 2, Len(r) - Len(Fence) - 1)

\* no position of the response starts a fence marker
NoFence(r) == \A i \in 1..Len(r) : ~OccursAt(r, Fence, i)

\* C5 as stated: a response that is exactly one json fenced block yields
\* exactly the body; a response without any fence marker comes back unchanged.
C5_ExactBody ==
    json_str.set =>
        /\ IsJsonBlock(response.text) => json_str.text = BlockBody(response.text)
        /\ NoFence(response.text) => json_str.text = response.text

\* C5 amended: a response that is exactly one json fenced block yields the body
\* with its leading and trailing whitespace removed (exactly the body when it
\* neither starts nor ends with whitespace); a response without any fence
\* marker comes back unchanged.
C5_TrimmedBody ==
    json_str.set =>
        /\ IsJsonBlock(response.text) =>
              json_str.text = Strip(BlockBody(response.text))
        /\ NoFence(response.text) => json_str.text = response.text

C5_Witness ==
    /\ json_str.set
    /\ response.text = FenceJson \o Newline \o DocEmptyObject \o Newline \o Fence
    /\ json_str.text = DocEmptyObject

\* position of the first fence marker, 0 if none
FirstFence(r) == Find(r, Fence, 1)

\* where the text after the opening marker at k starts
BodyStart(r, k) ==
    k + (IF OccursAt(r, FenceJson, k) THEN Len(FenceJson) ELSE Len(Fence))

\* the opening marker at k is followed by a closing marker
Closed(r, k) == k # 0 /\ Find(r, Fence, BodyStart(r, k)) # 0

\* the text between the opening marker at k and the next marker after it (the
\* end of the response when none follows), trimmed
BlockAt(r, k) ==
    LET b == BodyStart(r, k)
        e == Find(r, Fence, b)
    IN  Strip(SubSeq(r, b, IF e = 0 THEN Len(r) ELSE e - 1))

\* C9 as stated: when the response holds a closed fenced block, the parser gets
\* the text between the first opening fence and the next closing fence.
C9_FirstFencedBlock ==
    (json_str.set /\ Closed(response.text, FirstFence(response.text))) =>
        json_str.text = BlockAt(response.text, FirstFence(response.text))

\* the marker the code opens at: the first json fence, else the first fence
PreferredFence(r) ==
    IF Find(r, FenceJson, 1) # 0 THEN Find(r, FenceJson, 1) ELSE FirstFence(r)

\* C9 amended: when the response holds a closed fenced block, the parser gets
\* the text between the first json fence marker (the first fence marker when
\* there is no json fence) and the next fence marker after it, or the end of
\* the response when none follows.
C9_FirstJsonFencedBlock ==
    (json_str.set /\ Closed(response.text, FirstFence(response.text))) =>
        json_str.text = BlockAt(response.text, PreferredFence(response.text))

C9_Witness ==
    /\ json_str.set
    /\ response.text = Fence \o Garbage \o FenceJson \o DocEmptyObject \o Fence
    /\ json_str.text = DocEmptyObject


\* ================================================ the HTML text extractor
\* A document tree is given by its text nodes in document order, each with the
\* names of its ancestor elements (outermost first) and its characters.  Every
\* character of the extracted text carries where it came from (node, pos); the
\* separators get_text and join insert carry node 0.
HtmlPaths ==
    {<<"p">>, <<"header", "p">>, <<"div", "script">>, <<"nav", "style">>, <<"footer">>}
TextChars == {"a", " ", "\n"}
\* the text nodes of at most c characters (a text node is never empty)
NodeKinds(c) == [path : HtmlPaths, text : SeqsUpTo(TextChars, c) \ {<<>>}]

\* the node sequences of at most n nodes and at most c characters
RECURSIVE NodeSeqs(_, _)
NodeSeqs(n, c) ==
    IF n = 0 \/ c = 0 THEN {<<>>}
    ELSE {<<>>} \cup
         UNION {{<<k>> \o d : d \in NodeSeqs(n - 1, c - Len(k.text))} : k \in NodeKinds(c)}

WithIds(d) == [i \in 1..Len(d) |-> [id |-> i, path |-> d[i].path, text |-> d[i].text]]
Documents == {WithIds(d) : d \in NodeSeqs(MaxNodes, MaxChars)}

\* variant: header elements are kept
NonContentTagsWithoutHeader == {"script", "style", "nav", "footer"}

\* the element names soup(...) looks for
NonContentTags == {"script", "style", "nav", "footer", "header"}

InNonContent(node) == \E j \in 1..Len(node.path) : node.path[j] \in NonContentTags

\* for tag in soup([...]): tag.decompose()
Decompose(d) == SelectSeq(d, LAMBDA node : ~InNonContent(node))

Sep == [c |-> "\n", node |-> 0, pos |-> 0]
NodeChars(node) ==
    [j \in 1..Len(node.text) |-> [c |-> node.text[j], node |-> node.id, pos |-> j]]

\* sep.join(lines)
RECURSIVE Join(_, _)
Join(lines, sep) ==
    IF lines = <<>> THEN <<>>
    ELSE IF Len(lines) = 1 THEN lines[1]
    ELSE lines[1] \o <<sep>> \o Join(Tail(lines), sep)

\* soup.get_text(separator): the strings of the tree joined by the separator
GetText(d, sep) == Join([i \in 1..Len(d) |-> NodeChars(d[i])], sep)

IsSpace(x) == x.c \in Whitespace

\* position of the first line break of t, 0 if none
RECURSIVE FindBreak(_, _)
FindBreak(t, i) ==
    IF i > Len(t) THEN 0
    ELSE IF t[i].c = "\n" THEN i
    ELSE FindBreak(t, i + 1)

\* str.splitlines(): no empty last line after a final line break
RECURSIVE Splitlines(_)
Splitlines(t) ==
    IF t = <<>> THEN <<>>
    ELSE LET k == FindBreak(t, 1)
         IN  IF k = 0 THEN <<t>>
             ELSE <<SubSeq(t, 1, k - 1)>> \o Splitlines(SubSeq(t, k + 1, Len(t)))

RECURSIVE LineLStrip(_)
LineLStrip(t) == IF t # <<>> /\ IsSpace(Head(t)) THEN LineLStrip(Tail(t)) ELSE t

RECURSIVE LineRStrip(_)
LineRStrip(t) ==
    IF t # <<>> /\ IsSpace(t[Len(t)]) THEN LineRStrip(SubSeq(t, 1, Len(t) - 1)) ELSE t

\* line.strip()
LineStrip(t) == LineRStrip(LineLStrip(t))

\* [line.strip() for line in text.splitlines() if line.strip()]
CleanLines(t) ==
    LET ls == Splitlines(t)
        stripped == [i \in 1..Len(ls) |-> LineStrip(ls[i])]
    IN  SelectSeq(stripped, LAMBDA line : line # <<>>)

InitHtml ==
    /\ mode = "url"
    /\ pc = "Html"
    /\ api_key = TRUE
    /\ exit_status = -1
    /\ content = NoContent
    /\ llm_calls = 0
    /\ response = NoResponse
    /\ json_str = NoText
    /\ event_data = NoData
    /\ echoed = FALSE
    /\ file = NoFile
    /\ file_opens = 0
    /\ html \in Documents
    /\ soup = <<>>
    /\ text = <<>>
    /\ out = <<>>

\* extract_text_from_html(html)
ExtractTextFromHtml ==
    /\ pc = "Html"
    /\ soup' = Decompose(html)
    /\ text' = GetText(Decompose(html), Sep)
    /\ out' = Join(CleanLines(GetText(Decompose(html), Sep)), Sep)
    /\ pc' = "TextExtracted"
    /\ UNCHANGED <<mode, api_key, exit_status, content, llm_calls, response,
                   json_str, event_data, echoed, file, file_opens, html>>

NextHtml == ExtractTextFromHtml

SpecHtml == InitHtml /\ [][NextHtml]_vars

\* the node of the input tree lies inside a script, style, nav, footer or header
Excluded(node) ==
    \E j \in 1..Len(node.path) :
        node.path[j] \in {"script", "style", "nav", "footer", "header"}

Before(x, y) == x.node < y.node \/ (x.node = y.node /\ x.pos < y.pos)

\* C8: the extracted text has no empty or whitespace-only line, every line is
\* trimmed and is one unbroken piece of one source line, the text that remains
\* is in source order with nothing of it lost, and nothing of it comes from a
\* script, style, nav, footer or header element.
C8_ExtractedText ==
    pc = "TextExtracted" =>
        LET lines == Splitlines(out)
            kept == SelectSeq(out, LAMBDA x : x.node # 0)
        IN  /\ \A i \in 1..Len(lines) :
                  /\ lines[i] # <<>>
                  /\ ~IsSpace(lines[i][1])
                  /\ ~IsSpace(lines[i][Len(lines[i])])
                  /\ \A j \in 1..(Len(lines[i]) - 1) :
                        /\ lines[i][j + 1].node = lines[i][j].node
                        /\ lines[i][j + 1].pos = lines[i][j].pos + 1
            /\ \A i \in 1..Len(out) : out[i].node = 0 => out[i] = Sep
            /\ \A i, j \in 1..Len(kept) : i < j => Before(kept[i], kept[j])
            /\ \A i \in 1..Len(kept) :
                  /\ kept[i].node \in 1..Len(html)
                  /\ ~Excluded(html[kept[i].node])
                  /\ kept[i].c = html[kept[i].node].text[kept[i].pos]
            /\ \A n \in 1..Len(html) : \A q \in 1..Len(html[n].text) :
                  (~Excluded(html[n]) /\ html[n].text[q] \notin Whitespace) =>
                      \E i \in 1..Len(kept) : kept[i].node = n /\ kept[i].pos = q

C8_Witness ==
    /\ pc = "TextExtracted"
    /\ Len(html) = 2
    /\ html[1].path = <<"header", "p">>
    /\ html[1].text = <<"a">>
    /\ html[2].path = <<"p">>
    /\ html[2].text = <<" ", "a">>
    /\ out = <<[c |-> "a", node |-> 2, pos |-> 2]>>

====
